---- MODULE Spec2Model ----
(***************************************************************************)
(* Transcript aggregation of components/VoiceAgentDemo.tsx: the message    *)
(* ledger (React state `messages`), the per-turn chunk store (the ref      *)
(* `userChunksByTurn`), the event dispatcher `handleAgentMessage` and the   *)
(* session lifecycle callbacks handed to useLayercodeAgent; and the POST    *)
(* handler of app/api/authorize/route.ts, which keeps no state and whose    *)
(* calls run from one await to the next, each beside the other calls.       *)
(*                                                                         *)
(* JavaScript values are modelled as follows.                               *)
(*   - a string is a TLA+ string; `+` and join('') are \o;                  *)
(*   - an optional field of an inbound event is Absent, Str(s) or Num(n);   *)
(*   - a JavaScript number is the fraction n/d in lowest terms (d = 1 for   *)
(*     an integer, Number(n)), Infinity or -Infinity (d = 0), or NaN;       *)
(*   - an optional field of a stored value is Undefined or Def(v);          *)
(*   - a Map is the sequence of its entries in insertion order, which is    *)
(*     the order in which a JavaScript Map iterates.                        *)
(***************************************************************************)
EXTENDS Integers, Sequences, FiniteSets, TLC

VARIABLES
    messages,           \* useState<Message[]>: the message ledger
    userChunksByTurn,   \* useRef<TurnChunkMap>: turn id -> entries (counter, text)
    isSessionActive,    \* useState(false)
    error,              \* useState<string | null>: the banner text
    isConnecting,       \* status === 'connecting': connect() is awaited
    last,               \* the handler that ran last, with its argument
    calls               \* the calls of POST that have not returned yet

vars == <<messages, userChunksByTurn, isSessionActive, error, isConnecting, last, calls>>

(***************************************************************************)
(* Bounds of the model.                                                    *)
(***************************************************************************)
MaxMessages == 2        \* the ledger holds at most this many messages
MaxTextLen == 2         \* an accumulated assistant text has at most this length

(***************************************************************************)
(* Values.                                                                 *)
(***************************************************************************)
Absent == [k |-> "absent"]
Str(s) == [k |-> "string", s |-> s]
Num(n) == [k |-> "number", n |-> n]

Undefined == [def |-> FALSE]
Def(v) == [def |-> TRUE, v |-> v]

\* The JSON values a request body can hold beside strings and numbers, and
\* the place of a value that was not read.
Bool(b) == [k |-> "boolean", b |-> b]
JsonNull == [k |-> "null"]
Unread == [k |-> "unread"]

\* `!value` for a value of a request body.
Falsy(raw) ==
    \/ raw.k \in {"absent", "null"}
    \/ raw.k = "string" /\ raw.s = ""
    \/ raw.k = "number" /\ raw.n = 0
    \/ raw.k = "boolean" /\ ~raw.b

\* The calls of POST that can be under way at once, and a call that is not.
Calls == {"A", "B"}
Idle == [pc |-> "idle", requests |-> <<>>]

NaN == [nan |-> TRUE, n |-> 0, d |-> 1]
Number(n) == [nan |-> FALSE, n |-> n, d |-> 1]

\* Infinity (sign 1) and -Infinity (sign -1).
Infinity(sign) == [nan |-> FALSE, n |-> sign, d |-> 0]

RECURSIVE GCD(_, _)
GCD(a, b) == IF b = 0 THEN a ELSE GCD(b, a % b)

\* The number n/d, for d > 0, in lowest terms.
Fraction(n, d) ==
    LET g == GCD(IF n < 0 THEN 0 - n ELSE n, d)
    IN  [nan |-> FALSE, n |-> n \div g, d |-> d \div g]

(***************************************************************************)
(* JavaScript conversions.                                                 *)
(***************************************************************************)
Digits == <<"0", "1", "2", "3", "4", "5", "6", "7", "8", "9">>

\* The character at position i of the string s.
CharAt(s, i) == SubSeq(s, i, i)

IsDigit(c) == \E d \in 1..10 : Digits[d] = c

DigitVal(c) == (CHOOSE d \in 1..10 : Digits[d] = c) - 1

\* The white space characters that have no escape and are written as they
\* are: U+000B (VT), U+00A0 (NBSP), U+1680 (OGHAM SPACE MARK) and U+FEFF
\* (ZWNBSP, the byte order mark).
VerticalTab == ""
NoBreakSpace == " "
OghamSpaceMark == " "
ByteOrderMark == "﻿"

\* StrWhiteSpaceChar (WhiteSpace and LineTerminator of ECMA-262), as far as
\* a string of the model can hold it: TAB, LF, VT, FF, CR, space, NBSP,
\* U+1680 and U+FEFF.  U+2000 to U+200A, U+2028, U+2029, U+202F, U+205F and
\* U+3000 cannot be written in a string of the model.
IsWhiteSpace(c) ==
    c \in {" ", "\t", "\n", "\r", "\f",
           VerticalTab, NoBreakSpace, OghamSpaceMark, ByteOrderMark}

\* String(n) for an integer n: its decimal digits, with "-" when negative.
RECURSIVE NatToString(_)
NatToString(n) ==
    IF n < 10 THEN Digits[n + 1]
    ELSE NatToString(n \div 10) \o Digits[(n % 10) + 1]

IntToString(n) == IF n < 0 THEN "-" \o NatToString(0 - n) ELSE NatToString(n)

\* String.prototype.trim, as StringToNumber applies it.
RECURSIVE TrimLeft(_)
TrimLeft(s) ==
    IF Len(s) > 0 /\ IsWhiteSpace(CharAt(s, 1))
    THEN TrimLeft(SubSeq(s, 2, Len(s)))
    ELSE s

RECURSIVE TrimRight(_)
TrimRight(s) ==
    IF Len(s) > 0 /\ IsWhiteSpace(CharAt(s, Len(s)))
    THEN TrimRight(SubSeq(s, 1, Len(s) - 1))
    ELSE s

RECURSIVE DecimalValue(_)
DecimalValue(s) ==
    IF Len(s) = 0 THEN 0
    ELSE 10 * DecimalValue(SubSeq(s, 1, Len(s) - 1)) + DigitVal(CharAt(s, Len(s)))

AllDigits(s) == Len(s) > 0 /\ \A i \in 1..Len(s) : IsDigit(CharAt(s, i))

\* The place of the character c in the string s, or 0.
IndexOf(s, c) ==
    IF \E i \in 1..Len(s) : CharAt(s, i) = c
    THEN CHOOSE i \in 1..Len(s) : CharAt(s, i) = c /\ \A j \in 1..(i - 1) : CharAt(s, j) # c
    ELSE 0

\* The value of c as a digit of a hexadecimal, octal or binary literal, or -1.
RadixDigitVal(c) ==
    IF IndexOf("0123456789abcdef", c) > 0 THEN IndexOf("0123456789abcdef", c) - 1
    ELSE IndexOf("0123456789ABCDEF", c) - 1

AllRadixDigits(s, radix) ==
    /\ Len(s) > 0
    /\ \A i \in 1..Len(s) : RadixDigitVal(CharAt(s, i)) \in 0..(radix - 1)

RECURSIVE RadixValue(_, _)
RadixValue(s, radix) ==
    IF Len(s) = 0 THEN 0
    ELSE radix * RadixValue(SubSeq(s, 1, Len(s) - 1), radix)
            + RadixDigitVal(CharAt(s, Len(s)))

\* The radix of a NonDecimalIntegerLiteral (0x, 0o, 0b in either case, then
\* digits of the radix), or 0 when s is none.
RadixOf(s) ==
    LET radix == IF Len(s) < 3 \/ CharAt(s, 1) # "0" THEN 0
                 ELSE IF CharAt(s, 2) \in {"x", "X"} THEN 16
                 ELSE IF CharAt(s, 2) \in {"o", "O"} THEN 8
                 ELSE IF CharAt(s, 2) \in {"b", "B"} THEN 2
                 ELSE 0
    IN  IF radix # 0 /\ AllRadixDigits(SubSeq(s, 3, Len(s)), radix) THEN radix ELSE 0

RECURSIVE Pow10(_)
Pow10(k) == IF k = 0 THEN 1 ELSE 10 * Pow10(k - 1)

\* The place of the exponent indicator (e or E) of s, or 0.
ExponentAt(s) ==
    IF IndexOf(s, "e") = 0 THEN IndexOf(s, "E")
    ELSE IF IndexOf(s, "E") = 0 THEN IndexOf(s, "e")
    ELSE IF IndexOf(s, "e") < IndexOf(s, "E") THEN IndexOf(s, "e") ELSE IndexOf(s, "E")

\* The mantissa of s: up to the exponent indicator.
MantissaOf(s) == IF ExponentAt(s) = 0 THEN s ELSE SubSeq(s, 1, ExponentAt(s) - 1)

\* The digits of s without the decimal point.
DigitsOf(s) ==
    IF IndexOf(s, ".") = 0 THEN s
    ELSE SubSeq(s, 1, IndexOf(s, ".") - 1) \o SubSeq(s, IndexOf(s, ".") + 1, Len(s))

\* The number of digits of s after the decimal point.
FractionDigits(s) == IF IndexOf(s, ".") = 0 THEN 0 ELSE Len(s) - IndexOf(s, ".")

\* DecimalDigits . DecimalDigits(opt), . DecimalDigits, or DecimalDigits.
IsMantissa(s) == AllDigits(DigitsOf(s))

\* SignedInteger: DecimalDigits with an optional sign.
IsSignedInteger(s) ==
    IF Len(s) > 0 /\ CharAt(s, 1) \in {"+", "-"}
    THEN AllDigits(SubSeq(s, 2, Len(s)))
    ELSE AllDigits(s)

SignedIntegerValue(s) ==
    IF CharAt(s, 1) = "-" THEN 0 - DecimalValue(SubSeq(s, 2, Len(s)))
    ELSE IF CharAt(s, 1) = "+" THEN DecimalValue(SubSeq(s, 2, Len(s)))
    ELSE DecimalValue(s)

\* StrUnsignedDecimalLiteral other than Infinity: a mantissa, then an
\* ExponentPart or nothing.
IsUnsignedDecimal(s) ==
    /\ IsMantissa(MantissaOf(s))
    /\ ExponentAt(s) # 0 => IsSignedInteger(SubSeq(s, ExponentAt(s) + 1, Len(s)))

\* Its exponent of ten, the digits after the decimal point counted in.
ExponentOf(s) ==
    (IF ExponentAt(s) = 0 THEN 0
     ELSE SignedIntegerValue(SubSeq(s, ExponentAt(s) + 1, Len(s))))
        - FractionDigits(MantissaOf(s))

\* Its value, with the sign given.
DecimalLiteral(s, sign) ==
    LET digits == DecimalValue(DigitsOf(MantissaOf(s)))
        exponent == ExponentOf(s)
    IN  IF exponent >= 0 THEN Number(sign * digits * Pow10(exponent))
        ELSE Fraction(sign * digits, Pow10(0 - exponent))

\* Number(s) for a string s (StringToNumber of ECMA-262): white space is
\* stripped from both ends; the empty rest is 0; a hexadecimal, octal or
\* binary literal is its value; a decimal literal, with a sign, a decimal
\* point and an exponent or without, is its value; Infinity with or without
\* a sign is the infinite value; anything else is NaN.  Values are exact, for
\* literals whose digits stay within the integers of the model checker.
StringToNumber(s) ==
    LET t == TrimRight(TrimLeft(s))
        signed == Len(t) > 0 /\ CharAt(t, 1) \in {"+", "-"}
        sign == IF Len(t) > 0 /\ CharAt(t, 1) = "-" THEN 0 - 1 ELSE 1
        body == IF signed THEN SubSeq(t, 2, Len(t)) ELSE t
    IN  IF Len(t) = 0 THEN Number(0)
        ELSE IF RadixOf(t) # 0 THEN Number(RadixValue(SubSeq(t, 3, Len(t)), RadixOf(t)))
        ELSE IF body = "Infinity" THEN Infinity(sign)
        ELSE IF IsUnsignedDecimal(body) THEN DecimalLiteral(body, sign)
        ELSE NaN

\* String.prototype.includes.
Includes(s, sub) ==
    \E i \in 1..(Len(s) - Len(sub) + 1) : SubSeq(s, i, i + Len(sub) - 1) = sub

\* `event.turn_id != null ? String(event.turn_id) : undefined`
ToTurnId(raw) ==
    IF raw.k = "absent" THEN Undefined
    ELSE IF raw.k = "string" THEN Def(raw.s)
    ELSE Def(IntToString(raw.n))

\* `typeof rawCounter === 'number' ? rawCounter
\*      : rawCounter != null ? Number(rawCounter) : undefined`
ToCounter(raw) ==
    IF raw.k = "number" THEN Def(Number(raw.n))
    ELSE IF raw.k = "string" THEN Def(StringToNumber(raw.s))
    ELSE Undefined

\* `typeof event.content === 'string' ? event.content : ''`
ToContent(raw) == IF raw.k = "string" THEN raw.s ELSE ""

\* `!turnId`: undefined and the empty string are falsy.
Truthy(t) == t.def /\ t.v # ""

(***************************************************************************)
(* The chunk store: Map<string, Map<number, string>>.  A turn's map is the  *)
(* sequence of its entries [counter, text] in insertion order; the store is *)
(* a function from the turn ids that have a map.                            *)
(***************************************************************************)
EmptyStore == [t \in {} |-> <<>>]

\* Map.prototype.get(turnId) ?? new Map()
TurnMapOf(store, turnId) == IF turnId \in DOMAIN store THEN store[turnId] ELSE <<>>

HasKey(turnMap, counter) == \E i \in 1..Len(turnMap) : turnMap[i].counter = counter

\* Mutant of MapSet: the text is added to the text a key holds already.
MapSetConcatenates(turnMap, counter, content) ==
    IF HasKey(turnMap, counter)
    THEN [i \in 1..Len(turnMap) |->
            IF turnMap[i].counter = counter
            THEN [counter |-> counter, text |-> turnMap[i].text \o content]
            ELSE turnMap[i]]
    ELSE Append(turnMap, [counter |-> counter, text |-> content])

\* Mutant of MapSet: every set adds an entry, also for a key the map holds.
MapSetAlwaysAppends(turnMap, counter, content) ==
    Append(turnMap, [counter |-> counter, text |-> content])

\* Map.prototype.set(counter, content): an existing key (SameValueZero, so
\* NaN is one key) keeps its place and takes the new value; a new key is
\* added at the end.
MapSet(turnMap, counter, content) ==
    IF HasKey(turnMap, counter)
    THEN [i \in 1..Len(turnMap) |->
            IF turnMap[i].counter = counter
            THEN [counter |-> counter, text |-> content]
            ELSE turnMap[i]]
    ELSE Append(turnMap, [counter |-> counter, text |-> content])

\* userChunksByTurn.current.set(turnId, turnMap)
StoreSet(store, turnId, turnMap) ==
    [t \in DOMAIN store \cup {turnId} |-> IF t = turnId THEN turnMap ELSE store[t]]

\* Mutant of ClearTurn: the turn's chunks are kept.
ClearTurnKeepsChunks(store, turnId) == store

\* Mutant of ClearTurn: every turn's chunks are dropped.
ClearTurnDropsAll(store, turnId) == [t \in {} |-> <<>>]

\* clearTurn: userChunksByTurn.current.delete(turnId)
ClearTurn(store, turnId) == [t \in DOMAIN store \ {turnId} |-> store[t]]

(***************************************************************************)
(* [...turnMap.entries()].sort(([a], [b]) => a - b)                        *)
(***************************************************************************)
\* The comparator a - b is negative.  With a NaN operand the difference is
\* NaN, which sort treats as +0.
CompareNegative(a, b) ==
    /\ ~a.nan
    /\ ~b.nan
    /\ IF a.d = 0 /\ b.d = 0 THEN a.n < b.n ELSE a.n * b.d < b.n * a.d

\* A stable sort of a sequence under a consistent comparator: each element
\* in turn goes after the last element it is not below.
RECURSIVE StableSort(_)
StableSort(entries) ==
    IF Len(entries) <= 1 THEN entries
    ELSE LET x == entries[Len(entries)]
             sorted == StableSort(SubSeq(entries, 1, Len(entries) - 1))
             keep == {i \in 1..Len(sorted) : ~CompareNegative(x.counter, sorted[i].counter)}
             at == IF keep = {} THEN 0 ELSE CHOOSE i \in keep : \A j \in keep : j <= i
         IN  SubSeq(sorted, 1, at) \o <<x>> \o SubSeq(sorted, at + 1, Len(sorted))

\* The comparator is consistent on these keys unless NaN (equal to all) sits
\* among two or more distinct numbers.
ConsistentKeys(entries) ==
    \/ \A i \in 1..Len(entries) : ~entries[i].counter.nan
    \/ Cardinality({i \in 1..Len(entries) : ~entries[i].counter.nan}) <= 1

Reorderings(entries) ==
    {[i \in 1..Len(entries) |-> entries[p[i]]] :
        p \in {q \in [1..Len(entries) -> 1..Len(entries)] :
                 \A i, j \in 1..Len(entries) : i # j => q[i] # q[j]}}

\* Mutant of SortOutcomes: the entries stay in insertion order.
SortOutcomesInsertionOrder(entries) == {entries}

\* The orders sort may return: the stable sorted order under a consistent
\* comparator, any order otherwise (the order is implementation-defined).
SortOutcomes(entries) ==
    IF ConsistentKeys(entries) THEN {StableSort(entries)} ELSE Reorderings(entries)

\* chunks.map((chunk) => chunk.text).join('')
RECURSIVE JoinTexts(_)
JoinTexts(chunks) ==
    IF Len(chunks) = 0 THEN ""
    ELSE JoinTexts(SubSeq(chunks, 1, Len(chunks) - 1)) \o chunks[Len(chunks)].text

(***************************************************************************)
(* The message ledger.                                                     *)
(***************************************************************************)
SystemMessage(text) ==
    [role |-> "system", text |-> text, turnId |-> Undefined, chunks |-> Undefined]

\* appendSystemMessage: setMessages((prev) => [...prev, { role: 'system', text }])
AppendSystemMessage(prev, text) == Append(prev, SystemMessage(text))

\* prev.findIndex(...): the first index that matches, 0 for -1.
FindIndex(prev, next) ==
    LET hits == {i \in 1..Len(prev) :
                    prev[i].turnId = next.turnId /\ prev[i].role = next.role}
    IN  IF hits = {} THEN 0 ELSE CHOOSE i \in hits : \A j \in hits : i <= j

\* Mutant of UpsertMessage: a message without a turn id is upserted too.
UpsertMessageWithoutTurnGuard(prev, next, replace) ==
    LET index == FindIndex(prev, next)
    IN  IF index = 0 THEN Append(prev, next)
        ELSE [prev EXCEPT ![index] =
                [@ EXCEPT !.text = IF replace THEN next.text ELSE @ \o next.text,
                          !.chunks = IF next.chunks.def THEN next.chunks ELSE @]]

\* Mutant of UpsertMessage: the text is overwritten in both modes.
UpsertMessageOverwrites(prev, next, replace) ==
    IF ~Truthy(next.turnId) THEN Append(prev, next)
    ELSE LET index == FindIndex(prev, next)
         IN  IF index = 0 THEN Append(prev, next)
             ELSE [prev EXCEPT ![index] =
                     [@ EXCEPT !.text = next.text,
                               !.chunks = IF next.chunks.def THEN next.chunks ELSE @]]

\* Mutant of UpsertMessage: the updated message moves to the end of the ledger.
UpsertMessageReappends(prev, next, replace) ==
    IF ~Truthy(next.turnId) THEN Append(prev, next)
    ELSE LET index == FindIndex(prev, next)
         IN  IF index = 0 THEN Append(prev, next)
             ELSE Append(SubSeq(prev, 1, index - 1) \o SubSeq(prev, index + 1, Len(prev)),
                         [prev[index] EXCEPT
                             !.text = IF replace THEN next.text ELSE @ \o next.text,
                             !.chunks = IF next.chunks.def THEN next.chunks ELSE @])

\* Mutant of UpsertMessage: the text is accumulated in both modes.
UpsertMessageAccumulates(prev, next, replace) ==
    IF ~Truthy(next.turnId) THEN Append(prev, next)
    ELSE LET index == FindIndex(prev, next)
         IN  IF index = 0 THEN Append(prev, next)
             ELSE [prev EXCEPT ![index] =
                     [@ EXCEPT !.text = @ \o next.text,
                               !.chunks = IF next.chunks.def THEN next.chunks ELSE @]]

\* Mutant of UpsertMessage: every message is added at the end.
UpsertMessageAlwaysAppends(prev, next, replace) == Append(prev, next)

\* upsertMessage(next, { replace }), as the updater applied to prev.
UpsertMessage(prev, next, replace) ==
    IF ~Truthy(next.turnId) THEN Append(prev, next)
    ELSE LET index == FindIndex(prev, next)
         IN  IF index = 0 THEN Append(prev, next)
             ELSE [prev EXCEPT ![index] =
                     [@ EXCEPT !.text = IF replace THEN next.text ELSE @ \o next.text,
                               !.chunks = IF next.chunks.def THEN next.chunks ELSE @]]

(***************************************************************************)
(* Inputs: the inbound events (AgentEvent) and the error texts.            *)
(***************************************************************************)
Event(type, turn_id, delta_counter, content) ==
    [type |-> type, turn_id |-> turn_id, delta_counter |-> delta_counter, content |-> content]

\* Events the dispatcher drops: no type, an empty type, a type it does not
\* know, and a turn.end without a turn id.
IgnoredEvents ==
    {Event(type, Str("1"), Num(0), Str("a")) : type \in {Absent, Str(""), Str("response.audio")}}
        \cup {Event(Str("turn.end"), Absent, Absent, Absent)}

TurnEndEvents(turnIds) == {Event(Str("turn.end"), t, Absent, Absent) : t \in turnIds}

DeltaEvents(turnIds, counters, contents) ==
    {Event(Str("user.transcript.delta"), t, c, x) :
        t \in turnIds, c \in counters, x \in contents}

InterimDeltaEvents(turnIds, counters, contents) ==
    {Event(Str("user.transcript.interim_delta"), t, c, x) :
        t \in turnIds, c \in counters, x \in contents}

ResponseTextEvents(turnIds, contents) ==
    {Event(Str("response.text"), t, Absent, x) : t \in turnIds, x \in contents}

\* One turn, named by a string or by the equal number, with counters given
\* as numbers or as numeric strings, arriving in any order.
TurnEvents ==
    DeltaEvents({Str("1"), Num(1)}, {Num(0), Num(1), Str("1")}, {Str("a"), Str("b")})
        \cup InterimDeltaEvents({Str("1")}, {Num(2)}, {Str("c")})
        \cup TurnEndEvents({Str("1"), Num(1)})

\* Malformed deltas beside well-formed ones: a missing turn id, a missing
\* counter, a counter that is no number, a missing content.
FallbackEvents ==
    DeltaEvents({Str("1")}, {Num(0), Str("x"), Absent}, {Str("a"), Str("b")})
        \cup DeltaEvents({Absent}, {Num(0), Str("x"), Absent}, {Str("a"), Absent})
        \cup TurnEndEvents({Str("1")})

\* Assistant text for one turn, named by a string or by the equal number, and
\* without a turn, beside user deltas of the same turn.
AssistantEvents ==
    ResponseTextEvents({Str("1"), Num(1)}, {Str("a"), Str("b")})
        \cup ResponseTextEvents({Absent}, {Str("a"), Absent})
        \cup DeltaEvents({Str("1")}, {Num(0)}, {Str("a"), Str("b")})

\* One turn whose deltas carry two numeric counters, a counter that is no
\* number, or no counter at all.
ChunkEvents ==
    DeltaEvents({Str("1")}, {Num(0)}, {Str("a")})
        \cup DeltaEvents({Str("1")}, {Num(1)}, {Str("b")})
        \cup DeltaEvents({Str("1")}, {Str("x"), Absent}, {Str("c")})
        \cup TurnEndEvents({Str("1")})

\* Two turns interleaved, and the events the dispatcher drops.
DispatchEvents ==
    DeltaEvents({Str("1"), Str("2")}, {Num(0), Num(1)}, {Str("a")})
        \cup TurnEndEvents({Str("1"), Str("2")})
        \cup ResponseTextEvents({Str("2")}, {Str("b")})
        \cup IgnoredEvents

\* Two turns interleaved, each with deltas whose counter is a number, no
\* number or missing, turn.end and assistant text.
InterleaveEvents ==
    DeltaEvents({Str("1"), Str("2")}, {Num(0), Str("x"), Absent}, {Str("a")})
        \cup TurnEndEvents({Str("1"), Str("2")})
        \cup ResponseTextEvents({Str("1"), Str("2")}, {Str("b")})

ErrorTexts == {"insufficient_balance", "HTTP 402", "socket closed"}

ConnectErrorTexts == {"Failed to fetch"}

InsufficientFundsBanner ==
    "Your organization has insufficient funds. Please add funds to your Layercode account to continue."

(***************************************************************************)
(* Initial state: the values given to useState and useRef.                 *)
(***************************************************************************)
Init ==
    /\ messages = <<>>
    /\ userChunksByTurn = EmptyStore
    /\ isSessionActive = FALSE
    /\ error = Undefined
    /\ isConnecting = FALSE
    /\ last = [op |-> "mount"]
    /\ calls = [call \in Calls |-> Idle]

(***************************************************************************)
(* The model follows the ledger while it is within the bounds.             *)
(***************************************************************************)
WithinBounds ==
    /\ Len(messages) <= MaxMessages
    /\ \A i \in 1..Len(messages) :
          messages[i].role = "assistant" => Len(messages[i].text) <= MaxTextLen

(***************************************************************************)
(* updateUserTranscript                                                    *)
(***************************************************************************)
UserMessage(turnId, text, chunks) ==
    [role |-> "user", text |-> text, turnId |-> turnId, chunks |-> Def(chunks)]

\* Mutant of UpdateUserTranscript: the fallback path clears the whole store.
UpdateUserTranscriptFallbackClearsStore(evt) ==
    LET turnId == ToTurnId(evt.turn_id)
        content == ToContent(evt.content)
        counter == ToCounter(evt.delta_counter)
    IN  IF ~Truthy(turnId) \/ ~counter.def
        THEN /\ userChunksByTurn' = EmptyStore
             /\ messages' = UpsertMessage(messages, UserMessage(turnId, content, <<>>), TRUE)
        ELSE LET turnMap == MapSet(TurnMapOf(userChunksByTurn, turnId.v), counter.v, content)
             IN  /\ userChunksByTurn' = StoreSet(userChunksByTurn, turnId.v, turnMap)
                 /\ \E chunks \in SortOutcomes(turnMap) :
                        messages' = UpsertMessage(messages,
                                        UserMessage(turnId, JoinTexts(chunks), chunks), TRUE)

\* updateUserTranscript
UpdateUserTranscript(evt) ==
    LET turnId == ToTurnId(evt.turn_id)
        content == ToContent(evt.content)
        counter == ToCounter(evt.delta_counter)
    IN  IF ~Truthy(turnId) \/ ~counter.def
        THEN /\ userChunksByTurn' =
                    IF Truthy(turnId) THEN ClearTurn(userChunksByTurn, turnId.v)
                    ELSE userChunksByTurn
             /\ messages' = UpsertMessage(messages, UserMessage(turnId, content, <<>>), TRUE)
        ELSE LET turnMap == MapSet(TurnMapOf(userChunksByTurn, turnId.v), counter.v, content)
             IN  /\ userChunksByTurn' = StoreSet(userChunksByTurn, turnId.v, turnMap)
                 /\ \E chunks \in SortOutcomes(turnMap) :
                        messages' = UpsertMessage(messages,
                                        UserMessage(turnId, JoinTexts(chunks), chunks), TRUE)

(***************************************************************************)
(* appendAssistantMessage                                                  *)
(***************************************************************************)
AssistantMessage(turnId, text) ==
    [role |-> "assistant", text |-> text, turnId |-> turnId, chunks |-> Undefined]

AppendAssistantMessage(evt) ==
    /\ messages' = UpsertMessage(messages,
                        AssistantMessage(ToTurnId(evt.turn_id), ToContent(evt.content)), FALSE)
    /\ UNCHANGED userChunksByTurn

(***************************************************************************)
(* handleAgentMessage: the onMessage callback                              *)
(***************************************************************************)
\* `!type`: a missing type and the empty string are falsy.
NoType(evt) == evt.type.k = "absent" \/ evt.type.s = ""

IsTurnEnd(evt) == ~NoType(evt) /\ evt.type.s = "turn.end" /\ evt.turn_id.k # "absent"

IsTranscriptDelta(evt) ==
    /\ ~NoType(evt)
    /\ evt.type.s \in {"user.transcript.delta", "user.transcript.interim_delta"}

\* Mutant of IsResponseText: every response.* type counts as text.
IsResponseTextLoose(evt) ==
    ~NoType(evt) /\ evt.type.s \in {"response.text", "response.audio"}

IsResponseText(evt) == ~NoType(evt) /\ evt.type.s = "response.text"

HandleAgentMessage(evt) ==
    IF NoType(evt) THEN UNCHANGED <<messages, userChunksByTurn>>
    ELSE IF IsTurnEnd(evt)
    THEN /\ userChunksByTurn' = ClearTurn(userChunksByTurn, ToTurnId(evt.turn_id).v)
         /\ UNCHANGED messages
    ELSE IF IsTranscriptDelta(evt) THEN UpdateUserTranscript(evt)
    ELSE IF IsResponseText(evt) THEN AppendAssistantMessage(evt)
    ELSE UNCHANGED <<messages, userChunksByTurn>>

OnMessage(evt) ==
    /\ HandleAgentMessage(evt)
    /\ WithinBounds'
    /\ last' = [op |-> "onMessage", evt |-> evt]
    /\ UNCHANGED <<isSessionActive, error, isConnecting>>
    /\ UNCHANGED calls

(***************************************************************************)
(* The session callbacks given to useLayercodeAgent.                       *)
(***************************************************************************)
\* Mutant of OnConnect: a new connection takes the banner down.
OnConnectClearsError ==
    /\ isSessionActive' = TRUE
    /\ messages' = AppendSystemMessage(messages, "Connected")
    /\ WithinBounds'
    /\ last' = [op |-> "onConnect"]
    /\ error' = Undefined
    /\ UNCHANGED <<userChunksByTurn, isConnecting>>
    /\ UNCHANGED calls

OnConnect ==
    /\ isSessionActive' = TRUE
    /\ messages' = AppendSystemMessage(messages, "Connected")
    /\ WithinBounds'
    /\ last' = [op |-> "onConnect"]
    /\ UNCHANGED <<userChunksByTurn, error, isConnecting>>
    /\ UNCHANGED calls

\* Mutant of OnDisconnect: the chunk store is left as it is.
OnDisconnectKeepsChunks ==
    /\ isSessionActive' = FALSE
    /\ messages' = Append(messages,
            [role |-> "system", text |-> "Disconnected", turnId |-> Undefined, chunks |-> Undefined])
    /\ WithinBounds'
    /\ last' = [op |-> "onDisconnect"]
    /\ UNCHANGED <<userChunksByTurn, error, isConnecting>>
    /\ UNCHANGED calls

\* Mutant of OnDisconnect: the ledger is reset with the chunk store.
OnDisconnectResetsLedger ==
    /\ isSessionActive' = FALSE
    /\ userChunksByTurn' = EmptyStore
    /\ messages' = <<>>
    /\ last' = [op |-> "onDisconnect"]
    /\ UNCHANGED <<error, isConnecting>>
    /\ UNCHANGED calls

OnDisconnect ==
    /\ isSessionActive' = FALSE
    /\ userChunksByTurn' = EmptyStore
    /\ messages' = AppendSystemMessage(messages, "Disconnected")
    /\ WithinBounds'
    /\ last' = [op |-> "onDisconnect"]
    /\ UNCHANGED <<error, isConnecting>>
    /\ UNCHANGED calls

\* Mutant of IsInsufficientBalance: the code 402 is not looked for.
IsInsufficientBalanceByNameOnly(errorMessage) ==
    Includes(errorMessage, "insufficient_balance")

IsInsufficientBalance(errorMessage) ==
    Includes(errorMessage, "insufficient_balance") \/ Includes(errorMessage, "402")

OnError(errorMessage) ==
    /\ IF IsInsufficientBalance(errorMessage)
       THEN /\ error' = Def(InsufficientFundsBanner)
            /\ UNCHANGED messages
       ELSE /\ messages' = AppendSystemMessage(messages, "Error: " \o errorMessage)
            /\ UNCHANGED error
    /\ WithinBounds'
    /\ last' = [op |-> "onError", err |-> errorMessage]
    /\ UNCHANGED <<userChunksByTurn, isSessionActive, isConnecting>>
    /\ UNCHANGED calls

(***************************************************************************)
(* handleConnectClick, up to `await connect()` and after it, and the       *)
(* banner's dismiss button.                                                *)
(***************************************************************************)
\* Mutant of CanConnect: a connection in progress does not block the button.
CanConnectWhileConnecting == ~isSessionActive

CanConnect == ~isSessionActive /\ ~isConnecting

HandleConnectClick ==
    /\ IF ~CanConnect
       THEN UNCHANGED <<messages, userChunksByTurn, error, isConnecting>>
       ELSE /\ userChunksByTurn' = EmptyStore
            /\ messages' = <<>>
            /\ error' = Undefined
            /\ isConnecting' = TRUE
    /\ last' = [op |-> "handleConnectClick", started |-> CanConnect]
    /\ UNCHANGED isSessionActive
    /\ UNCHANGED calls

ConnectResolved ==
    /\ isConnecting
    /\ isConnecting' = FALSE
    /\ last' = [op |-> "connectResolved"]
    /\ UNCHANGED <<messages, userChunksByTurn, isSessionActive, error>>
    /\ UNCHANGED calls

ConnectRejected(errorMessage) ==
    /\ isConnecting
    /\ isConnecting' = FALSE
    /\ messages' = <<SystemMessage("Failed to connect: " \o errorMessage)>>
    /\ last' = [op |-> "connectRejected", err |-> errorMessage]
    /\ UNCHANGED <<userChunksByTurn, isSessionActive, error>>
    /\ UNCHANGED calls

DismissError ==
    /\ error.def
    /\ error' = Undefined
    /\ last' = [op |-> "dismissError"]
    /\ UNCHANGED <<messages, userChunksByTurn, isSessionActive, isConnecting>>
    /\ UNCHANGED calls

(***************************************************************************)
(* The specification.                                                      *)
(***************************************************************************)
Lifecycle ==
    \/ OnConnect
    \/ OnDisconnect
    \/ \E errorMessage \in ErrorTexts : OnError(errorMessage)
    \/ HandleConnectClick
    \/ ConnectResolved
    \/ \E errorMessage \in ConnectErrorTexts : ConnectRejected(errorMessage)
    \/ DismissError

NextTurn ==
    \/ \E evt \in TurnEvents : OnMessage(evt)
    \/ Lifecycle

SpecTurn == Init /\ [][NextTurn]_vars

NextFallback ==
    \/ \E evt \in FallbackEvents : OnMessage(evt)
    \/ Lifecycle

SpecFallback == Init /\ [][NextFallback]_vars

NextAssistant ==
    \/ \E evt \in AssistantEvents : OnMessage(evt)
    \/ Lifecycle

SpecAssistant == Init /\ [][NextAssistant]_vars

NextDispatch ==
    \/ \E evt \in DispatchEvents : OnMessage(evt)
    \/ Lifecycle

SpecDispatch == Init /\ [][NextDispatch]_vars

NextChunks ==
    \/ \E evt \in ChunkEvents : OnMessage(evt)
    \/ Lifecycle

SpecChunks == Init /\ [][NextChunks]_vars

NextInterleave ==
    \/ \E evt \in InterleaveEvents : OnMessage(evt)
    \/ Lifecycle

SpecInterleave == Init /\ [][NextInterleave]_vars

(***************************************************************************)
(* The authorization route, src/app/api/authorize/route.ts.  POST reads    *)
(* the API key from the environment and the body from the request, asks    *)
(* the upstream service once and relays its answer.  The route keeps no    *)
(* state; `last` records each call with what went in and what came out.    *)
(***************************************************************************)
Endpoint == "https://api.layercode.com/v1/agents/web/authorize_session"

\* What `await request.json()` yields: a rejection with the SyntaxError of
\* the runtime for a body that is no JSON, or the JSON value of the body:
\* null, a string, a number, a boolean, or an object with or without
\* agent_id.
InvalidJson(message) == [k |-> "invalid", message |-> message]

JsonObject(agent_id) == [k |-> "object", agent_id |-> agent_id]

\* `requestBody.agent_id`: undefined for a value that is no object.
AgentIdOf(requestBody) ==
    IF requestBody.k = "object" THEN requestBody.agent_id ELSE Absent

\* What `await fetch(...)` yields: a response with its status, its status
\* text, what response.text() yields and what response.json() yields (a
\* JSON value, or a rejection as above), or a rejection.
UpstreamResponse(status, statusText, text, json) ==
    [kind |-> "response", status |-> status, statusText |-> statusText,
     text |-> text, json |-> json]

UpstreamFailure(message) == [kind |-> "failure", message |-> message]

\* The place of the reply of a call that sent no request.
NoReply == [kind |-> "none"]

\* response.ok
ResponseOk(response) == response.status \in 200..299

\* What POST ends in: a response returned, or an error thrown to its caller.
JsonResponse(body, status, statusText) ==
    [kind |-> "response", status |-> status, statusText |-> statusText, body |-> body]

Thrown(message) == [kind |-> "throw", message |-> message]

ErrorBody(message) == [error |-> message]

\* The request POST sends upstream.
UpstreamRequest(apiKey, requestBody) ==
    [url |-> Endpoint, method |-> "POST",
     authorization |-> "Bearer " \o apiKey.v, body |-> requestBody]

\* Mutant of UpstreamErrorText: the status text is preferred to the body.
UpstreamErrorTextStatusFirst(response) ==
    IF response.statusText # "" THEN response.statusText ELSE response.text

\* `text || response.statusText`
UpstreamErrorText(response) ==
    IF response.text # "" THEN response.text ELSE response.statusText

\* The try block: the response it returns or the error it raises.
Exchange(reply) ==
    IF reply.kind = "failure" THEN Thrown(reply.message)
    ELSE IF ~ResponseOk(reply) THEN Thrown(UpstreamErrorText(reply))
    ELSE IF reply.json.k = "invalid" THEN Thrown(reply.json.message)
    ELSE JsonResponse(reply.json, 200, "")

\* Mutant of Catch: every error is relayed as a generic failure.
CatchWithoutBalanceCheck(message) == JsonResponse(ErrorBody(message), 500, "")

\* The catch block.
Catch(message) ==
    IF message # "" /\ Includes(message, "insufficient_balance")
    THEN JsonResponse(ErrorBody("insufficient_balance"), 402, "insufficient_balance")
    ELSE JsonResponse(ErrorBody(message), 500, "")

\* POST, from its call to its return, for a call that runs alone: the
\* requests it sends upstream and what it ends in, given the API key, what
\* request.json() yields and what the upstream answers.  A value the call
\* does not come to read is not looked at.
POST(apiKey, requestBody, reply) ==
    IF ~Truthy(apiKey)
    THEN [requests |-> <<>>, result |-> Thrown("LAYERCODE_API_KEY is not set.")]
    ELSE IF requestBody.k = "invalid"
    THEN [requests |-> <<>>, result |-> Thrown(requestBody.message)]
    ELSE IF Falsy(requestBody) \/ Falsy(AgentIdOf(requestBody))
    THEN [requests |-> <<>>, result |-> Thrown("Missing agent_id in request body.")]
    ELSE LET attempt == Exchange(reply)
         IN  [requests |-> <<UpstreamRequest(apiKey, requestBody)>>,
              result |-> IF attempt.kind = "throw" THEN Catch(attempt.message)
                         ELSE attempt]

\* The inputs of a call: process.env.LAYERCODE_API_KEY, what request.json()
\* yields and what the upstream answers to the request, should one be sent.
ApiKeys == {Undefined, Def(""), Def("sk-1")}

RequestBodies ==
    {InvalidJson(message) :
        message \in {"Unexpected end of JSON input",
                     "Expected property name or '}' in JSON at position 1 (line 1 column 2)"}}
        \cup {JsonNull, Str("agent-1")}
        \cup {JsonObject(a) :
                a \in {Absent, JsonNull, Str(""), Num(0), Bool(FALSE), Str("agent-1")}}

SessionPayload == [k |-> "object", client_session_key |-> "key-1"]

UpstreamReplies ==
    {UpstreamResponse(200, "OK", "{\"client_session_key\":\"key-1\"}", SessionPayload),
     UpstreamResponse(200, "OK", "",
                      InvalidJson("Unexpected end of JSON input")),
     UpstreamResponse(200, "OK", "<html>",
                      InvalidJson("Unexpected token '<', \"<html>\" is not valid JSON"))}
        \cup {UpstreamResponse(status, statusText, text, Unread) :
                status \in {401, 402},
                statusText \in {"", "Payment Required", "insufficient_balance"},
                text \in {"", "invalid api key", "insufficient_balance",
                          "error: insufficient_balance"}}
        \cup {UpstreamFailure("fetch failed")}

\* A call that waits at an await of POST, with what it has read and the
\* requests it has sent upstream so far.
Waiting(pc, apiKey, requestBody, reply, requests) ==
    [pc |-> pc, apiKey |-> apiKey, requestBody |-> requestBody, reply |-> reply,
     requests |-> requests]

\* The call returns or throws: it is under way no more.  `last` takes what
\* the call read, the requests it sent and what it ended in, and what the
\* call that returned before it ended in.
Returns(call, apiKey, requestBody, reply, requests, result) ==
    /\ calls' = [calls EXCEPT ![call] = Idle]
    /\ last' = [op |-> "POST", apiKey |-> apiKey, requestBody |-> requestBody,
                reply |-> reply, run |-> [requests |-> requests, result |-> result],
                earlier |-> IF last.op = "POST" THEN last.run.result ELSE NoReply]

\* Mutant of PostCalled: the check of the API key sits inside the try block.
PostCalledInsideTry(call, apiKey) ==
    /\ calls[call].pc = "idle"
    /\ IF ~Truthy(apiKey)
       THEN Returns(call, apiKey, Unread, NoReply, <<>>,
                    Catch("LAYERCODE_API_KEY is not set."))
       ELSE /\ calls' = [calls EXCEPT ![call] =
                            Waiting("request.json", apiKey, Unread, NoReply, <<>>)]
            /\ UNCHANGED last
    /\ UNCHANGED <<messages, userChunksByTurn, isSessionActive, error, isConnecting>>

\* Lines 21-29: POST is called and reads the API key; without one it throws,
\* with one it waits for the request body.
PostCalled(call, apiKey) ==
    /\ calls[call].pc = "idle"
    /\ IF ~Truthy(apiKey)
       THEN Returns(call, apiKey, Unread, NoReply, <<>>,
                    Thrown("LAYERCODE_API_KEY is not set."))
       ELSE /\ calls' = [calls EXCEPT ![call] =
                            Waiting("request.json", apiKey, Unread, NoReply, <<>>)]
            /\ UNCHANGED last
    /\ UNCHANGED <<messages, userChunksByTurn, isSessionActive, error, isConnecting>>

\* Lines 29-41: request.json() settles.  Its rejection, and a body without
\* agent_id, are thrown to the caller; else the request is sent upstream and
\* the call waits for the answer.
BodyRead(call, requestBody) ==
    /\ calls[call].pc = "request.json"
    /\ LET apiKey == calls[call].apiKey
       IN  IF requestBody.k = "invalid"
           THEN Returns(call, apiKey, requestBody, NoReply, <<>>,
                        Thrown(requestBody.message))
           ELSE IF Falsy(requestBody) \/ Falsy(AgentIdOf(requestBody))
           THEN Returns(call, apiKey, requestBody, NoReply, <<>>,
                        Thrown("Missing agent_id in request body."))
           ELSE /\ calls' = [calls EXCEPT ![call] =
                                Waiting("fetch", apiKey, requestBody, NoReply,
                                        Append(calls[call].requests,
                                               UpstreamRequest(apiKey, requestBody)))]
                /\ UNCHANGED last
    /\ UNCHANGED <<messages, userChunksByTurn, isSessionActive, error, isConnecting>>

\* Lines 34-46: fetch settles.  Its rejection goes to the catch block; with
\* a response the call waits for its text when it is not OK and for its JSON
\* value when it is.
FetchSettled(call, reply) ==
    /\ calls[call].pc = "fetch"
    /\ IF reply.kind = "failure"
       THEN Returns(call, calls[call].apiKey, calls[call].requestBody, reply,
                    calls[call].requests, Catch(reply.message))
       ELSE /\ calls' = [calls EXCEPT ![call] =
                            Waiting(IF ResponseOk(reply) THEN "response.json"
                                    ELSE "response.text",
                                    calls[call].apiKey, calls[call].requestBody, reply,
                                    calls[call].requests)]
            /\ UNCHANGED last
    /\ UNCHANGED <<messages, userChunksByTurn, isSessionActive, error, isConnecting>>

\* Mutant of ResponseRead: once a call has ended in insufficient_balance,
\* every later refusal of the upstream is reported as one.
ResponseReadRemembers(call) ==
    /\ calls[call].pc \in {"response.text", "response.json"}
    /\ LET reply == calls[call].reply
           result ==
               IF calls[call].pc = "response.text"
               THEN IF /\ last.op = "POST"
                       /\ last.run.result.kind = "response"
                       /\ last.run.result.status = 402
                    THEN Catch("insufficient_balance")
                    ELSE Catch(UpstreamErrorText(reply))
               ELSE IF reply.json.k = "invalid" THEN Catch(reply.json.message)
               ELSE JsonResponse(reply.json, 200, "")
       IN  Returns(call, calls[call].apiKey, calls[call].requestBody, reply,
                   calls[call].requests, result)
    /\ UNCHANGED <<messages, userChunksByTurn, isSessionActive, error, isConnecting>>

\* Lines 43-58: response.text() settles and its text, or the status text,
\* is thrown to the catch block; or response.json() settles and its value is
\* returned, its rejection going to the catch block.
ResponseRead(call) ==
    /\ calls[call].pc \in {"response.text", "response.json"}
    /\ LET reply == calls[call].reply
           result ==
               IF calls[call].pc = "response.text" THEN Catch(UpstreamErrorText(reply))
               ELSE IF reply.json.k = "invalid" THEN Catch(reply.json.message)
               ELSE JsonResponse(reply.json, 200, "")
       IN  Returns(call, calls[call].apiKey, calls[call].requestBody, reply,
                   calls[call].requests, result)
    /\ UNCHANGED <<messages, userChunksByTurn, isSessionActive, error, isConnecting>>

NextAuthorize ==
    \/ \E call \in Calls, apiKey \in ApiKeys : PostCalled(call, apiKey)
    \/ \E call \in Calls, requestBody \in RequestBodies : BodyRead(call, requestBody)
    \/ \E call \in Calls, reply \in UpstreamReplies : FetchSettled(call, reply)
    \/ \E call \in Calls : ResponseRead(call)

SpecAuthorize == Init /\ [][NextAuthorize]_vars

(***************************************************************************)
(* Properties.  The last handler and its argument are read from `last`.    *)
(***************************************************************************)
DeltaTypes == {Str("user.transcript.delta"), Str("user.transcript.interim_delta")}

\* The handler that ran last is onMessage, with a transcript delta.
DeltaDelivered(l) == l.op = "onMessage" /\ l.evt.type \in DeltaTypes

\* ... with a turn.end that names a turn.
TurnEndDelivered(l) ==
    l.op = "onMessage" /\ l.evt.type = Str("turn.end") /\ l.evt.turn_id # Absent

\* The numerals of the numbers 0..9, for the turns and counters of the inputs.
Numerals == <<"0", "1", "2", "3", "4", "5", "6", "7", "8", "9">>

\* The turn an event names: the string itself, or the numeral of the number.
TurnKey(raw) == IF raw.k = "string" THEN raw.s ELSE Numerals[raw.n + 1]

HasTurn(raw) == raw # Absent /\ raw # Str("")

\* The counter is a number, or a string that is the numeral of a number.
NumericCounter(raw) ==
    \/ raw.k = "number"
    \/ raw.k = "string" /\ \E n \in 0..9 : Numerals[n + 1] = raw.s

\* The slot such a counter names.
SlotOf(raw) ==
    IF raw.k = "number" THEN raw.n ELSE (CHOOSE i \in 1..10 : Numerals[i] = raw.s) - 1

\* The text of an event's content.
TextOf(raw) == IF raw.k = "string" THEN raw.s ELSE ""

UserMessagesOf(ledger, t) ==
    {i \in 1..Len(ledger) : ledger[i].role = "user" /\ ledger[i].turnId = Def(t)}

AssistantMessagesOf(ledger, t) ==
    {i \in 1..Len(ledger) : ledger[i].role = "assistant" /\ ledger[i].turnId = Def(t)}

AllNumeric(entries) == \A i \in 1..Len(entries) : ~entries[i].counter.nan

\* The texts of entries with numeric counters, lowest counter first.
RECURSIVE AscendingText(_)
AscendingText(entries) ==
    IF Len(entries) = 0 THEN ""
    ELSE LET i == CHOOSE k \in 1..Len(entries) :
                    \A j \in 1..Len(entries) : entries[k].counter.n <= entries[j].counter.n
         IN  entries[i].text
                \o AscendingText(SubSeq(entries, 1, i - 1) \o SubSeq(entries, i + 1, Len(entries)))

\* C1: after a delta with a numeric counter for a turn whose recorded
\* counters are all numbers, the ledger has one user message for the turn and
\* its text is the recorded texts joined lowest counter first, whatever the
\* order in which they were recorded.
C1_TextFollowsCounterOrder ==
    (/\ DeltaDelivered(last)
     /\ HasTurn(last.evt.turn_id)
     /\ NumericCounter(last.evt.delta_counter)
     /\ TurnKey(last.evt.turn_id) \in DOMAIN userChunksByTurn
     /\ AllNumeric(userChunksByTurn[TurnKey(last.evt.turn_id)]))
    => LET t == TurnKey(last.evt.turn_id)
       IN  /\ Cardinality(UserMessagesOf(messages, t)) = 1
           /\ \A i \in UserMessagesOf(messages, t) :
                  messages[i].text = AscendingText(userChunksByTurn[t])

\* C1 witness: deltas with the counters 2, 0, 1 and the texts c, a, b were
\* handled in that order, and the turn's user message reads abc.
C1_Witness ==
    /\ DeltaDelivered(last)
    /\ last.evt.delta_counter = Str("1")
    /\ "1" \in DOMAIN userChunksByTurn
    /\ userChunksByTurn["1"] =
            <<[counter |-> Number(2), text |-> "c"],
              [counter |-> Number(0), text |-> "a"],
              [counter |-> Number(1), text |-> "b"]>>
    /\ \E m \in UserMessagesOf(messages, "1") : messages[m].text = "abc"

\* The entries of a turn's map that sit under the counter n.
EntriesAt(entries, n) == {i \in 1..Len(entries) : entries[i].counter = Number(n)}

\* The entries of a turn's map under other counters, as a set.
EntriesBeside(entries, n) ==
    {entries[i] : i \in {j \in 1..Len(entries) : entries[j].counter # Number(n)}}

\* C2: a delta with a numeric counter, given as a number or as a numeral,
\* for a turn given as a string or as a number, leaves exactly one entry
\* under that counter, holding the delta's text, and leaves the entries under
\* the turn's other counters as they were; the user message's chunks are the
\* same entries.
C2_LastWriteWins ==
    [][(/\ DeltaDelivered(last')
        /\ HasTurn(last'.evt.turn_id)
        /\ NumericCounter(last'.evt.delta_counter))
       => LET t == TurnKey(last'.evt.turn_id)
              n == SlotOf(last'.evt.delta_counter)
              before == TurnMapOf(userChunksByTurn, t)
          IN  /\ t \in DOMAIN userChunksByTurn'
              /\ Cardinality(EntriesAt(userChunksByTurn'[t], n)) = 1
              /\ \A i \in EntriesAt(userChunksByTurn'[t], n) :
                     userChunksByTurn'[t][i].text = TextOf(last'.evt.content)
              /\ EntriesBeside(userChunksByTurn'[t], n) = EntriesBeside(before, n)
              /\ Len(userChunksByTurn'[t]) = Cardinality(EntriesBeside(before, n)) + 1
              /\ \A m \in UserMessagesOf(messages', t) :
                     /\ messages'[m].chunks.def
                     /\ {messages'[m].chunks.v[i] : i \in 1..Len(messages'[m].chunks.v)}
                            = {userChunksByTurn'[t][i] : i \in 1..Len(userChunksByTurn'[t])}
                     /\ Len(messages'[m].chunks.v) = Len(userChunksByTurn'[t])
      ]_vars

\* C2 witness: the turn came as a number and the counter as a numeral, and
\* the entry under that counter is not the map's newest, so the delta
\* overwrote an entry that was recorded before another.
C2_Witness ==
    /\ DeltaDelivered(last)
    /\ last.evt.turn_id = Num(1)
    /\ last.evt.delta_counter = Str("1")
    /\ "1" \in DOMAIN userChunksByTurn
    /\ Len(userChunksByTurn["1"]) >= 2
    /\ userChunksByTurn["1"][1] = [counter |-> Number(1), text |-> TextOf(last.evt.content)]

\* C3: a response.text with a turn id adds its content to the end of the
\* text of the turn's assistant message, or appends that message when the
\* ledger has none; the ledger then holds exactly one assistant message for
\* the turn, and every other message, the turn's user message among them,
\* is as it was.
C3_AssistantTextAccumulates ==
    [][(/\ last'.op = "onMessage"
        /\ last'.evt.type = Str("response.text")
        /\ HasTurn(last'.evt.turn_id))
       => LET t == TurnKey(last'.evt.turn_id)
              x == TextOf(last'.evt.content)
              held == AssistantMessagesOf(messages, t)
          IN  /\ Cardinality(AssistantMessagesOf(messages', t)) = 1
              /\ IF held = {}
                 THEN messages' = Append(messages,
                                    [role |-> "assistant", text |-> x,
                                     turnId |-> Def(t), chunks |-> Undefined])
                 ELSE /\ Len(messages') = Len(messages)
                      /\ \A i \in 1..Len(messages) :
                            IF i \in held
                            THEN messages'[i] = [messages[i] EXCEPT !.text = @ \o x]
                            ELSE messages'[i] = messages[i]
              /\ userChunksByTurn' = userChunksByTurn
      ]_vars

\* C3 witness: a response.text that names the turn by a number was handled,
\* the turn's assistant message reads two different contents in the order
\* they came, and the ledger holds the turn's user message before it.
C3_Witness ==
    /\ last.op = "onMessage"
    /\ last.evt.type = Str("response.text")
    /\ last.evt.turn_id = Num(1)
    /\ last.evt.content = Str("b")
    /\ Len(messages) = 2
    /\ messages[1].role = "user" /\ messages[1].turnId = Def("1")
    /\ messages[2].role = "assistant" /\ messages[2].turnId = Def("1")
    /\ messages[2].text = "ab"

\* C4: after a turn.end the store has no entry for the turn, and a numeric
\* delta (c, x) for the turn that comes next leaves the store with {c -> x}
\* alone for it and the turn's user message with text x and chunks [{c, x}].
C4_TurnEndStartsAfresh ==
    [][/\ TurnEndDelivered(last') => TurnKey(last'.evt.turn_id) \notin DOMAIN userChunksByTurn'
       /\ (/\ TurnEndDelivered(last)
           /\ DeltaDelivered(last')
           /\ last'.evt.turn_id # Absent
           /\ TurnKey(last'.evt.turn_id) = TurnKey(last.evt.turn_id)
           /\ NumericCounter(last'.evt.delta_counter))
          => LET t == TurnKey(last'.evt.turn_id)
                 only == <<[counter |-> Number(SlotOf(last'.evt.delta_counter)),
                            text |-> TextOf(last'.evt.content)]>>
             IN  /\ t \in DOMAIN userChunksByTurn'
                 /\ userChunksByTurn'[t] = only
                 /\ UserMessagesOf(messages', t) # {}
                 /\ \A m \in UserMessagesOf(messages', t) :
                        /\ messages'[m].text = TextOf(last'.evt.content)
                        /\ messages'[m].chunks = Def(only)
      ]_vars

\* C4 witness: a turn.end was handled for a turn whose user message shows
\* two chunks, and the store holds nothing for the turn.
C4_Witness ==
    /\ TurnEndDelivered(last)
    /\ TurnKey(last.evt.turn_id) \notin DOMAIN userChunksByTurn
    /\ \E m \in UserMessagesOf(messages, TurnKey(last.evt.turn_id)) :
          messages[m].chunks.def /\ Len(messages[m].chunks.v) >= 2

\* C5: a turn.end that names a turn leaves every ledger message as it was,
\* and leaves the chunk store's entries of all other turns as they were.
C5_TurnEndKeepsLedger ==
    [][TurnEndDelivered(last')
       => /\ messages' = messages
          /\ DOMAIN userChunksByTurn' = DOMAIN userChunksByTurn \ {TurnKey(last'.evt.turn_id)}
          /\ \A u \in DOMAIN userChunksByTurn' : userChunksByTurn'[u] = userChunksByTurn[u]
      ]_vars

\* C5 witness: a turn.end was handled for a turn whose user message shows
\* chunks, the store has nothing for that turn and has chunks of another turn.
C5_Witness ==
    /\ TurnEndDelivered(last)
    /\ TurnKey(last.evt.turn_id) \notin DOMAIN userChunksByTurn
    /\ userChunksByTurn # EmptyStore
    /\ \E m \in UserMessagesOf(messages, TurnKey(last.evt.turn_id)) :
          messages[m].chunks.def /\ Len(messages[m].chunks.v) >= 1

\* C6: a delta without a turn id appends one user message that has the
\* event's content as text, no chunks and no turn id, whatever its counter,
\* and changes neither an existing message nor the chunk store.
C6_MissingTurnIdAppends ==
    [][(DeltaDelivered(last') /\ last'.evt.turn_id = Absent)
       => /\ messages' = Append(messages,
                            [role |-> "user", text |-> TextOf(last'.evt.content),
                             turnId |-> Undefined, chunks |-> Def(<<>>)])
          /\ userChunksByTurn' = userChunksByTurn
      ]_vars

\* C6 witness: a delta without a turn id and with a numeric counter was
\* handled while the ledger already held such a message.
C6_Witness ==
    /\ DeltaDelivered(last)
    /\ last.evt.turn_id = Absent
    /\ last.evt.delta_counter = Num(0)
    /\ Len(messages) >= 2
    /\ \A i \in {Len(messages) - 1, Len(messages)} :
          messages[i].role = "user" /\ messages[i].turnId = Undefined

\* C7: after a delta with a turn id and a counter that is not a number, the
\* store has nothing for the turn and the turn's user message has the
\* event's content as text and no chunks.
C7_NonNumericCounterFallsBack ==
    (/\ DeltaDelivered(last)
     /\ HasTurn(last.evt.turn_id)
     /\ last.evt.delta_counter # Absent
     /\ ~NumericCounter(last.evt.delta_counter))
    => /\ TurnKey(last.evt.turn_id) \notin DOMAIN userChunksByTurn
       /\ UserMessagesOf(messages, TurnKey(last.evt.turn_id)) # {}
       /\ \A m \in UserMessagesOf(messages, TurnKey(last.evt.turn_id)) :
              /\ messages[m].text = TextOf(last.evt.content)
              /\ messages[m].chunks = Def(<<>>)

\* The type is one the dispatcher acts on.
KnownType(type) ==
    type \in DeltaTypes \cup {Str("turn.end"), Str("response.text")}

\* C8: an event without a type, with a type the dispatcher does not know,
\* or a turn.end without a turn id, changes neither the ledger nor the store.
C8_IgnoredEventsChangeNothing ==
    [][(/\ last'.op = "onMessage"
        /\ \/ ~KnownType(last'.evt.type)
           \/ last'.evt.type = Str("turn.end") /\ last'.evt.turn_id = Absent)
       => /\ messages' = messages
          /\ userChunksByTurn' = userChunksByTurn
      ]_vars

\* C8 witness: such an event was handled while the ledger and the store
\* were not empty.
C8_Witness ==
    /\ last.op = "onMessage"
    /\ last.evt.type = Str("response.audio")
    /\ messages # <<>>
    /\ userChunksByTurn # EmptyStore

\* C9: a disconnect empties the chunk store and keeps every ledger message
\* in its place; the only step that empties a ledger is a connect attempt.
C9_DisconnectClearsChunksOnly ==
    [][/\ last'.op = "onDisconnect"
          => /\ userChunksByTurn' = EmptyStore
             /\ Len(messages') >= Len(messages)
             /\ SubSeq(messages', 1, Len(messages)) = messages
       /\ (messages # <<>> /\ messages' = <<>>) => last'.op = "handleConnectClick"
      ]_vars

\* C9 witness: a disconnect was handled, the store is empty and the ledger
\* still shows a user message with its chunks.
C9_Witness ==
    /\ last.op = "onDisconnect"
    /\ userChunksByTurn = EmptyStore
    /\ \E i \in 1..Len(messages) :
          /\ messages[i].role = "user"
          /\ messages[i].chunks.def
          /\ Len(messages[i].chunks.v) >= 2

\* C10, as stated: after a disconnect the chunk store and the ledger are
\* both empty.
C10_DisconnectResetsEverything ==
    last.op = "onDisconnect" => userChunksByTurn = EmptyStore /\ messages = <<>>

\* C10, amended: a disconnect empties the chunk store, keeps the ledger's
\* messages and adds the system message 'Disconnected' after them.
C10_DisconnectKeepsLedger ==
    [][last'.op = "onDisconnect"
       => /\ userChunksByTurn' = EmptyStore
          /\ messages' = Append(messages,
                            [role |-> "system", text |-> "Disconnected",
                             turnId |-> Undefined, chunks |-> Undefined])
      ]_vars

\* C10 witness: a disconnect was handled and the ledger holds an earlier
\* message before 'Disconnected'.
C10_Witness ==
    /\ last.op = "onDisconnect"
    /\ Len(messages) >= 2
    /\ messages[1].role # "system"

\* The chunks read in strictly ascending counter order.
AscendingChunks(chunks) ==
    \A i, j \in 1..Len(chunks) :
        i < j => /\ ~chunks[i].counter.nan
                 /\ ~chunks[j].counter.nan
                 /\ chunks[i].counter.n < chunks[j].counter.n

\* The user messages of the ledger that carry a turn id.
TurnUserMessages(ledger) ==
    {i \in 1..Len(ledger) : ledger[i].role = "user" /\ Truthy(ledger[i].turnId)}

\* C11, for the user messages that list chunks: in every state, every user
\* message with a turn id and at least one chunk has its chunks in strictly
\* ascending counter order and, as text, their texts joined in that order.
\* A delta whose counter is no number is recorded under the key NaN and
\* listed among the chunks, where no counter order holds.
C11_TextIsJoinOfAscendingChunks ==
    \A i \in TurnUserMessages(messages) :
        /\ messages[i].chunks.def
        /\ messages[i].chunks.v # <<>>
              => /\ AscendingChunks(messages[i].chunks.v)
                 /\ messages[i].text = JoinTexts(messages[i].chunks.v)

\* The ledger `after` is `before` with one message added at the end.
AppendsOne(before, after) ==
    /\ Len(after) = Len(before) + 1
    /\ SubSeq(after, 1, Len(before)) = before

\* The ledger `after` is `before` but for the text and the chunks of the one
\* message that has the role and the turn t.
UpdatesInPlace(before, after, role, t) ==
    /\ Len(after) = Len(before)
    /\ \E i \in 1..Len(before) :
          /\ before[i].role = role
          /\ before[i].turnId = Def(t)
          /\ after[i].role = before[i].role
          /\ after[i].turnId = before[i].turnId
          /\ \A j \in 1..Len(before) : j # i => after[j] = before[j]

\* The role of the message an event writes.
RoleOf(evt) == IF evt.type \in DeltaTypes THEN "user" ELSE "assistant"

\* C12: every handler but the connect attempt (the click and its failure)
\* leaves the ledger as it was, or adds one message at its end, or, for an
\* event that names a turn, changes the text and the chunks of the one message
\* of the event's role and turn, in its place; the ledger never gets shorter.
C12_LedgerAppendOnly ==
    [][last'.op \notin {"handleConnectClick", "connectRejected"}
          => /\ Len(messages') >= Len(messages)
             /\ \/ messages' = messages
                \/ AppendsOne(messages, messages')
                \/ /\ last'.op = "onMessage"
                   /\ HasTurn(last'.evt.turn_id)
                   /\ UpdatesInPlace(messages, messages', RoleOf(last'.evt),
                                     TurnKey(last'.evt.turn_id))
      ]_vars

\* C12 witness: a delta for turn 1 was handled; the turn's user message is
\* the first of the ledger and lists two chunks, and the message of turn 2
\* still follows it.
C12_Witness ==
    /\ DeltaDelivered(last)
    /\ last.evt.turn_id = Str("1")
    /\ Len(messages) = 2
    /\ messages[1].role = "user"
    /\ messages[1].turnId = Def("1")
    /\ Len(messages[1].chunks.v) = 2
    /\ messages[2].turnId = Def("2")

\* The error message contains 'insufficient_balance' or '402'.
SignalsInsufficientBalance(m) ==
    \E i \in 1..Len(m) : \E j \in i..Len(m) :
        SubSeq(m, i, j) \in {"insufficient_balance", "402"}

\* C13: a session error whose message contains 'insufficient_balance' or
\* '402' sets the banner and leaves the ledger as it was; any other session
\* error adds the one system message 'Error: <message>' at the end of the
\* ledger and leaves the banner as it was.  Neither changes the chunk store
\* or the session-active flag.
C13_ErrorRouting ==
    [][last'.op = "onError"
          => /\ IF SignalsInsufficientBalance(last'.err)
                THEN /\ error' = Def(InsufficientFundsBanner)
                     /\ messages' = messages
                ELSE /\ error' = error
                     /\ messages' = Append(messages,
                            [role |-> "system", text |-> "Error: " \o last'.err,
                             turnId |-> Undefined, chunks |-> Undefined])
             /\ userChunksByTurn' = userChunksByTurn
             /\ isSessionActive' = isSessionActive
      ]_vars

\* C13 witness: the error 'HTTP 402' was handled in an active session with
\* recorded chunks; the banner is set and the ledger holds no message for
\* the error.
C13_Witness ==
    /\ last.op = "onError"
    /\ last.err = "HTTP 402"
    /\ error.def
    /\ isSessionActive
    /\ userChunksByTurn # EmptyStore
    /\ messages # <<>>
    /\ \A i \in 1..Len(messages) : messages[i].text # "Error: HTTP 402"

\* The string s contains the string sub.
Contains(s, sub) ==
    \E i \in 1..Len(s) : \E j \in i..Len(s) : SubSeq(s, i, j) = sub

\* The call had an API key and an agent_id, so that it sent a request.
CallComplete(l) ==
    /\ l.op = "POST"
    /\ l.apiKey \notin {Undefined, Def("")}
    /\ l.requestBody.k = "object"
    /\ l.requestBody.agent_id \notin {Absent, JsonNull, Str(""), Num(0), Bool(FALSE)}

\* The upstream answered with a non-OK status.
UpstreamRefused(reply) == reply.kind = "response" /\ reply.status \notin 200..299

\* The upstream answered with an OK status and a JSON body.
UpstreamGranted(reply) ==
    reply.kind = "response" /\ reply.status \in 200..299 /\ reply.json.k # "invalid"

\* The upstream's error text (its body, or its status text when the body is
\* empty) contains 'insufficient_balance'.
UpstreamSaysInsufficientBalance(reply) ==
    /\ UpstreamRefused(reply)
    /\ \/ Contains(reply.text, "insufficient_balance")
       \/ reply.text = "" /\ Contains(reply.statusText, "insufficient_balance")

\* C14: a call whose request the upstream refuses with an error text that
\* contains 'insufficient_balance' returns the status 402 with the error code
\* 'insufficient_balance'; a call whose request fails in any other way
\* returns a response with another status and another error code.
C14_InsufficientBalanceDistinguished ==
    (CallComplete(last) /\ ~UpstreamGranted(last.reply))
        => LET result == last.run.result
           IN  /\ result.kind = "response"
               /\ DOMAIN result.body = {"error"}
               /\ IF UpstreamSaysInsufficientBalance(last.reply)
                  THEN /\ result.status = 402
                       /\ result.body.error = "insufficient_balance"
                  ELSE /\ result.status # 402
                       /\ result.body.error # "insufficient_balance"

\* C14 witness: the upstream refused the request with the status 401 and the
\* body 'error: insufficient_balance', and the call returned 402 with the
\* error code.
C14_Witness ==
    /\ CallComplete(last)
    /\ last.reply = UpstreamResponse(401, "", "error: insufficient_balance", Unread)
    /\ last.run.result.status = 402
    /\ last.run.result.body = [error |-> "insufficient_balance"]

\* C15, as the claim states it: every call ends in a response; no error is
\* thrown to the caller of POST.  A call without an API key refutes it.
C15_NoExceptionEscapes ==
    last.op = "POST" => last.run.result.kind = "response"

\* C15, amended: a call whose request the upstream refuses or fails to
\* answer ends in a response that carries an error; a call without an API
\* key, without a JSON body or without an agent_id sends no request and ends
\* in an error thrown to the caller of POST.
C15_UpstreamFailuresAreResponses ==
    last.op = "POST"
        => LET result == last.run.result
           IN  IF CallComplete(last)
               THEN /\ result.kind = "response"
                    /\ ~UpstreamGranted(last.reply)
                          => /\ DOMAIN result.body = {"error"}
                             /\ result.status \in {402, 500}
               ELSE /\ result.kind = "throw"
                    /\ last.run.requests = <<>>

\* C15 witness: the request to the upstream failed, and the call returned
\* the status 500 with the failure's message.
C15_Witness ==
    /\ CallComplete(last)
    /\ last.reply = UpstreamFailure("fetch failed")
    /\ last.run.result = JsonResponse([error |-> "fetch failed"], 500, "")

\* C16, as the claim states it: when the upstream refuses the request for
\* another reason than the balance, the call returns the upstream's status
\* and the upstream's message.  The status returned is 500 whatever the
\* upstream's status.
C16_UpstreamStatusRelayed ==
    (/\ CallComplete(last)
     /\ UpstreamRefused(last.reply)
     /\ ~UpstreamSaysInsufficientBalance(last.reply))
        => /\ last.run.result.kind = "response"
           /\ last.run.result.status = last.reply.status
           /\ last.run.result.body =
                [error |-> IF last.reply.text # "" THEN last.reply.text
                           ELSE last.reply.statusText]

\* C16, amended: when the upstream refuses the request for another reason
\* than the balance, the call returns the status 500 and, as error, the
\* upstream's body text, or the upstream's status text when the body is empty.
C16_UpstreamMessageRelayed ==
    (/\ CallComplete(last)
     /\ UpstreamRefused(last.reply)
     /\ ~UpstreamSaysInsufficientBalance(last.reply))
        => /\ last.run.result.kind = "response"
           /\ last.run.result.status = 500
           /\ last.run.result.body =
                [error |-> IF last.reply.text # "" THEN last.reply.text
                           ELSE last.reply.statusText]

\* C16 witness: the upstream refused the request with the status 401 and the
\* body 'invalid api key', and the call returned the status 500 with that
\* message.
C16_Witness ==
    /\ CallComplete(last)
    /\ last.reply = UpstreamResponse(401, "", "invalid api key", Unread)
    /\ last.run.result = JsonResponse([error |-> "invalid api key"], 500, "")

\* C17: a call sends at most one request upstream, none when the API key or
\* the agent_id is missing, and exactly one, whether it fails or not, when
\* both are there; what a call sent and ended in, as it ran from await to
\* await beside and after other calls, is what POST sends and ends in for
\* its API key, request body and upstream reply alone; so two calls with the
\* same three end the same, whatever the call before ended in.
C17_OneRequestNoMemory ==
    [][last'.op = "POST"
          => /\ Len(last'.run.requests) <= 1
             /\ Len(last'.run.requests) = (IF CallComplete(last') THEN 1 ELSE 0)
             /\ last'.run = POST(last'.apiKey, last'.requestBody, last'.reply)
             /\ (/\ last.op = "POST"
                 /\ last.apiKey = last'.apiKey
                 /\ last.requestBody = last'.requestBody
                 /\ last.reply = last'.reply)
                    => last'.run = last.run
      ]_vars

\* C17 witness: the call before ended in 402 insufficient_balance; this
\* call, whose request the upstream refused with 'invalid api key', sent its
\* one request and returned 500 with that message, while another call was
\* waiting for the upstream's answer.
C17_Witness ==
    /\ CallComplete(last)
    /\ last.earlier.kind = "response"
    /\ last.earlier.status = 402
    /\ \E call \in Calls : calls[call].pc = "fetch"
    /\ last.reply = UpstreamResponse(401, "", "invalid api key", Unread)
    /\ Len(last.run.requests) = 1
    /\ last.run.requests[1].authorization = "Bearer sk-1"
    /\ last.run.requests[1].body = last.requestBody
    /\ last.run.result = JsonResponse([error |-> "invalid api key"], 500, "")

\* C18: a delta that names a turn and has no counter removes the turn's
\* entry from the chunk store and leaves the other entries; the turn's user
\* message, if the ledger has one, keeps its place and gets the delta's
\* content as text and no chunks; if it has none, that message is added at
\* the end.
C18_MissingCounterReplaces ==
    [][(/\ DeltaDelivered(last')
        /\ HasTurn(last'.evt.turn_id)
        /\ last'.evt.delta_counter = Absent)
          => LET t == TurnKey(last'.evt.turn_id)
                 fallback == [role |-> "user", text |-> TextOf(last'.evt.content),
                              turnId |-> Def(t), chunks |-> Def(<<>>)]
                 found == UserMessagesOf(messages, t)
             IN  /\ DOMAIN userChunksByTurn' = DOMAIN userChunksByTurn \ {t}
                 /\ \A b \in DOMAIN userChunksByTurn' :
                        userChunksByTurn'[b] = userChunksByTurn[b]
                 /\ IF found = {}
                    THEN messages' = Append(messages, fallback)
                    ELSE \E i \in found :
                            /\ \A j \in found : i <= j
                            /\ messages' = [messages EXCEPT ![i] = fallback]
      ]_vars

\* C18 witness: a delta for turn 1 without a counter was handled; the
\* turn's user message is the first of two messages, reads the delta's
\* content and lists no chunks, and the store has no entry for the turn.
C18_Witness ==
    /\ DeltaDelivered(last)
    /\ last.evt.turn_id = Str("1")
    /\ last.evt.delta_counter = Absent
    /\ last.evt.content = Str("b")
    /\ Len(messages) = 2
    /\ messages[1] = [role |-> "user", text |-> "b", turnId |-> Def("1"), chunks |-> Def(<<>>)]
    /\ "1" \notin DOMAIN userChunksByTurn

\* C19: a click on the connect button while the session is neither active
\* nor connecting empties the chunk store and the ledger, clears the banner
\* and starts the connection; a click while it is active or connecting
\* changes nothing and starts no connection.
C19_ConnectClick ==
    [][last'.op = "handleConnectClick"
          => IF ~isSessionActive /\ ~isConnecting
             THEN /\ last'.started
                  /\ userChunksByTurn' = EmptyStore
                  /\ messages' = <<>>
                  /\ error' = Undefined
                  /\ isConnecting'
                  /\ isSessionActive' = isSessionActive
             ELSE /\ ~last'.started
                  /\ UNCHANGED <<messages, userChunksByTurn, error,
                                 isSessionActive, isConnecting>>
      ]_vars

\* C19 witness: a click was handled while the connection was in progress
\* and started nothing; the ledger, the chunk store and the banner still
\* hold what arrived since the connection was started.
C19_Witness ==
    /\ last.op = "handleConnectClick"
    /\ ~last.started
    /\ isConnecting
    /\ messages # <<>>
    /\ userChunksByTurn # EmptyStore
    /\ error.def

\* C20: an event that names a turn (a delta with a numeric counter, a delta
\* whose counter is missing or no number, a turn.end, a response.text)
\* leaves the chunk store's entries of the other turns and the ledger's
\* messages of the other turns as they were.
C20_TurnsIndependent ==
    [][(last'.op = "onMessage" /\ HasTurn(last'.evt.turn_id))
          => LET a == TurnKey(last'.evt.turn_id)
             IN  /\ \A b \in (DOMAIN userChunksByTurn \cup DOMAIN userChunksByTurn') \ {a} :
                        /\ b \in DOMAIN userChunksByTurn
                        /\ b \in DOMAIN userChunksByTurn'
                        /\ userChunksByTurn'[b] = userChunksByTurn[b]
                 /\ \A i \in 1..Len(messages) :
                        (Truthy(messages[i].turnId) /\ messages[i].turnId.v # a)
                            => /\ i <= Len(messages')
                               /\ messages'[i] = messages[i]
      ]_vars

\* C20 witness: a delta without a counter for turn 2 was handled while turn
\* 1 had two chunks recorded; turn 2 has no entry in the store, turn 1 still
\* has its two, and the ledger holds the user message of each: ab for turn
\* 1, the delta's content for turn 2.
C20_Witness ==
    /\ DeltaDelivered(last)
    /\ last.evt.turn_id = Str("2")
    /\ last.evt.delta_counter = Absent
    /\ DOMAIN userChunksByTurn = {"1"}
    /\ Len(userChunksByTurn["1"]) = 2
    /\ \E i \in UserMessagesOf(messages, "1") :
            /\ messages[i].chunks.v = userChunksByTurn["1"]
            /\ Len(messages[i].text) = 2
    /\ \E i \in UserMessagesOf(messages, "2") :
            /\ messages[i].chunks.v = <<>>
            /\ messages[i].text = "a"

\* C21: while the banner is set, every handler leaves it as it is, but for
\* the dismiss button and a click on the connect button that starts a
\* connection, which clear it.
C21_BannerStays ==
    [][error.def
          => \/ error' = error
             \/ /\ error' = Undefined
                /\ \/ last'.op = "dismissError"
                   \/ last'.op = "handleConnectClick" /\ last'.started
      ]_vars

\* C21 witness: the banner is set in an active session, and since then an
\* error of another kind was handled and is shown in the ledger.
C21_Witness ==
    /\ error = Def(InsufficientFundsBanner)
    /\ isSessionActive
    /\ last.op = "onError"
    /\ last.err = "socket closed"
    /\ messages[Len(messages)].text = "Error: socket closed"

\* The messages of the ledger with the role and the turn id t.
MessagesOf(ledger, role, t) ==
    {i \in 1..Len(ledger) : ledger[i].role = role /\ ledger[i].turnId = Def(t)}

\* C22: in every state the ledger has at most one message for each role
\* and each turn id that is not the empty string, so the first message that
\* upsertMessage finds for a role and a turn is the only one.
C22_OneMessagePerTurnAndRole ==
    \A i, j \in 1..Len(messages) :
        (/\ Truthy(messages[i].turnId)
         /\ messages[i].turnId = messages[j].turnId
         /\ messages[i].role = messages[j].role)
            => i = j

\* C22 witness: the ledger holds two messages, the user message and the
\* assistant message of turn 1; the assistant message reads ab after a second
\* text for the turn.
C22_Witness ==
    /\ Len(messages) = 2
    /\ last.op = "onMessage"
    /\ last.evt.type = Str("response.text")
    /\ MessagesOf(messages, "user", "1") # {}
    /\ \E i \in MessagesOf(messages, "assistant", "1") : messages[i].text = "ab"

\* The chunks are the entries of the turn's map, each once.
SameEntries(chunks, entries) ==
    /\ Len(chunks) = Len(entries)
    /\ {chunks[i] : i \in 1..Len(chunks)} = {entries[i] : i \in 1..Len(entries)}

\* The ledger shows the turn t of the store: it has a user message for t
\* whose chunks are the turn's entries in strictly ascending counter order
\* and whose text is their texts joined.
ShownInLedger(ledger, store, t) ==
    \E i \in UserMessagesOf(ledger, t) :
        /\ ledger[i].chunks.def
        /\ SameEntries(ledger[i].chunks.v, store[t])
        /\ AscendingChunks(ledger[i].chunks.v)
        /\ ledger[i].text = JoinTexts(ledger[i].chunks.v)

\* C23: in every state, every turn that has an entry in the chunk store is
\* shown in the ledger.  The failure of a connect attempt replaces the ledger
\* by one system message and keeps the chunk store, so that a delta handled
\* while the connection was being made stays in the store without a message.
C23_StoreShownInLedger ==
    \A t \in DOMAIN userChunksByTurn : ShownInLedger(messages, userChunksByTurn, t)

\* The event is a delta with a turn and a numeric counter.
NumericDelta(l) ==
    /\ DeltaDelivered(l)
    /\ HasTurn(l.evt.turn_id)
    /\ NumericCounter(l.evt.delta_counter)

\* Two deltas with the same turn, counter and content.
SameDelta(e1, e2) ==
    /\ e1.type = e2.type
    /\ TurnKey(e1.turn_id) = TurnKey(e2.turn_id)
    /\ SlotOf(e1.delta_counter) = SlotOf(e2.delta_counter)
    /\ TextOf(e1.content) = TextOf(e2.content)

\* C24: a delta with a turn and a numeric counter that is handled right
\* after a delta with the same turn, counter and content leaves the chunk
\* store and the ledger as the first one left them.
C24_RepeatedDeltaChangesNothing ==
    [][(/\ NumericDelta(last)
        /\ NumericDelta(last')
        /\ SameDelta(last.evt, last'.evt))
          => /\ userChunksByTurn' = userChunksByTurn
             /\ messages' = messages
      ]_vars

\* C24 witness: the delta of turn 1 with the counter 0 and the text a was
\* handled last, on a map that held the counter 0 before the counter 1; the
\* user message reads ab.  The same delta handled again is a step from this
\* state.
C24_Witness ==
    /\ NumericDelta(last)
    /\ last.evt.delta_counter = Num(0)
    /\ last.evt.content = Str("a")
    /\ "1" \in DOMAIN userChunksByTurn
    /\ userChunksByTurn["1"] =
            <<[counter |-> Number(0), text |-> "a"], [counter |-> Number(1), text |-> "b"]>>
    /\ \E i \in UserMessagesOf(messages, "1") :
            /\ messages[i].text = "ab"
            /\ messages[i].chunks = Def(userChunksByTurn["1"])

====
